---- MODULE Spec2Model ----
(***************************************************************************)
(* nestjs-distributed-lock: DistributedLockService (acquire / release /    *)
(* isLocked / withLock) on top of PostgreSQL session-level advisory locks. *)
(*                                                                         *)
(* Every `await` of the service is a step boundary.  The database engine   *)
(* is the table lockHolder (identifier -> holding session); query runners  *)
(* are numbered sessions.  A rejected query or release of a query runner   *)
(* has no effect of its own and is either a lost connection (the engine    *)
(* ends the session and revokes what it held) or the error of one          *)
(* statement on a connection that lives on.  queryRunner.release() hands   *)
(* the connection back to the pool, which keeps it, with whatever its      *)
(* session still holds, or ends it.  A pooled connection that kept a lock  *)
(* is not handed out again within one behaviour.                           *)
(***************************************************************************)
EXTENDS Integers, Sequences, FiniteSets, TLC

\* ------------------------------------------------------------------ bounds
NumTasks == 2          \* concurrent callers (coordinators)
MaxOps == 3            \* operations the callers start in one behaviour
MaxFailures == 1       \* connection failures injected in one behaviour
MaxRetriesOpt == 1     \* the maxRetries option ranges over 0..MaxRetriesOpt
MaxKeyLen == 2         \* the hasher is given every key up to this length
LongKeyLen == 12       \* and one long key of this length
OptTtl == 1000         \* the ttl option, when one is given (ms)

Tasks == 1 .. NumTasks
\* every attempt of every operation can create its own query runner;
\* the n-th query runner that caller p creates is <<p, n>>
MaxRunners == (MaxOps + 1) * (MaxRetriesOpt + 1)
Runners == Tasks \X (1 .. MaxRunners)
NoRunner == <<0, 0>>      \* `queryRunner` undefined in the handle
PoolSession == <<0, 1>>   \* a pooled connection used by dataSource.query
Free == <<0, 0>>          \* the engine: no session holds the identifier

\* keys are strings, written as sequences of UTF-16 code units
KeyA == <<97>>
KeyB == <<98>>
Keys == {KeyA, KeyB}

\* "g4u6" and "h3ye": two keys that are given one identifier
KeyG == <<103, 52, 117, 54>>
KeyH == <<104, 51, 121, 101>>
CollidingKeys == {KeyG, KeyH}

\* ------------------------------------------------------------- KeyHasher
\* 32-bit words are pairs <<hi, lo>> of 16-bit halves, so that no
\* intermediate value leaves the range of the checker's integers.
Half == 65536

RECURSIVE XorBits(_, _, _)
XorBits(a, b, n) ==
    IF n = 0 THEN 0
    ELSE (((a % 2) + (b % 2)) % 2) + 2 * XorBits(a \div 2, b \div 2, n - 1)

\* hash ^= c  (c is one UTF-16 code unit, it touches the low half only)
Xor32(h, c) == <<h[1], XorBits(h[2], c, 16)>>

\* Math.imul(hash, 0x01000193): 0x01000193 = 256 * 2^16 + 403
Imul32(h) ==
    LET low == h[2] * 403
    IN  <<((h[1] * 403) + (h[2] * 256) + (low \div Half)) % Half, low % Half>>

RECURSIVE fnv1a32From(_, _, _)
fnv1a32From(str, i, hash) ==
    IF i > Len(str) THEN hash
    ELSE fnv1a32From(str, i + 1, Imul32(Xor32(hash, str[i])))

\* 0x811c9dc5 = <<0x811c, 0x9dc5>>; the result is the unsigned word
fnv1a32(str) == fnv1a32From(str, 1, <<33052, 40389>>)

\* Math.abs(hash) % 2147483647 for an unsigned 32-bit hash
MaxPgInt == 2147483647

\* variant: the hash is left a signed 32-bit value and Math.abs is missing
generateLockKeySigned(key) ==
    LET h    == fnv1a32(key)
        top  == h[1] \div 32768
        rest == ((h[1] % 32768) * Half) + h[2]
    IN  IF top = 1 THEN 0 - ((((MaxPgInt - rest) % MaxPgInt) + 1) % MaxPgInt)
        ELSE rest % MaxPgInt

generateLockKey(key) ==
    LET h    == fnv1a32(key)
        top  == h[1] \div 32768
        rest == ((h[1] % 32768) * Half) + h[2]
    IN  ((IF rest = MaxPgInt THEN 0 ELSE rest) + top) % MaxPgInt

LockIds == {generateLockKey(k) : k \in Keys \cup CollidingKeys}

\* the keys given to the hasher alone: all strings up to MaxKeyLen over two
\* ASCII letters, a CJK character and half of a surrogate pair (the empty
\* string included), and one long key
HashAlphabet == {97, 98, 20013, 55357}
LongKey == [i \in 1 .. LongKeyLen |-> 120]
HashKeys ==
    UNION {[1 .. n -> HashAlphabet] : n \in 0 .. MaxKeyLen} \cup {LongKey}

\* ----------------------------------------------------------------- state
VARIABLES
    task,        \* per caller: the locals of the operation it is running
    handle,      \* per caller: the LockHandle its last acquire returned
    sess,        \* per query runner: "unused" | "created" | "open" | "closed"
    lockHolder,  \* the engine: identifier -> session holding it, or Free
    nextRunner,  \* per caller: query runners created so far
    counter,     \* per key: the shared counter that fn increments
    fnRuns,      \* per key: fn executions completed
    nbFn,        \* keys whose fn has run under a wait = false acquire
    opsLeft,     \* operations started
    faultsLeft   \* connection failures the environment may still inject

vars == <<task, handle, sess, lockHolder, nextRunner, counter, fnRuns, nbFn,
          opsLeft, faultsLeft>>

\* key and queryRunner are what the closure of release() captured; the
\* other fields record the acquisition: its wait and ttl options, the session the
\* grant was made on, whether release() has run yet, how often, and how
\* often a release() of the handle has called queryRunner.release()
NoHandle == [key |-> <<>>, lockKey |-> 0, queryRunner |-> NoRunner,
             wait |-> TRUE, ttl |-> <<>>, grantedOn |-> NoRunner,
             live |-> FALSE, releaseCalls |-> 0, runnerReleases |-> 0]

\* the module option defaultTimeout, and a timeout given to one call (ms)
defaultTimeout == 5000
OptTimeout == 10000

\* the module options maxRetries and retryDelay (ms)
maxRetries == 2
retryDelay == 100

\* the options of one call: each is <<>> when omitted, <<v>> when given
NoOptions == [timeout |-> <<>>, wait |-> <<>>, maxRetries |-> <<>>,
              retryDelay |-> <<>>, ttl |-> <<>>]

\* variant: what the call gives is ignored
OptionIgnored(opt, dflt) == dflt

\* const { name = dflt } = options: the default stands in for an omitted
\* (undefined) option only
OptionOr(opt, dflt) == IF opt = <<>> THEN dflt ELSE opt[1]

\* a request as the interceptor meets it: whether it was given a
\* Reflector, and the @Lock metadata of the handler (<<>>: none, else
\* <<options>>); NoRequest: the call is no request
NoRequest == [reflector |-> TRUE, metadata |-> <<>>, isRequest |-> FALSE]

\* what a thrown LockAcquireTimeoutException carries; NoError: none thrown
NoError == [key |-> <<>>, timeout |-> 0]
LockAcquireTimeoutException(key, timeout) == [key |-> key, timeout |-> timeout]

\* optTimeout is options.timeout (<<>>: not given), timeout its effective
\* value; attempts (grant requests issued), sleeps, refusals, errors, fnCalls,
\* releases and relErrors only record what the running operation has done
IdleTask == [pc |-> "idle", op |-> "none", key |-> <<>>, lockKey |-> 0,
             wait |-> TRUE, maxRetries |-> 0, attempt |-> 0,
             queryRunner |-> NoRunner, locked |-> FALSE,
             attempts |-> 0, sleeps |-> 0, refusals |-> 0, errors |-> 0,
             tmp |-> 0, fnCalls |-> 0, fnResult |-> "none",
             releases |-> 0, relErrors |-> 0,
             outcome |-> "none", isLockedResult |-> FALSE,
             optTimeout |-> <<>>, timeout |-> defaultTimeout,
             thrown |-> NoError,
             opts |-> NoOptions, retryDelay |-> retryDelay, slept |-> 0,
             request |-> NoRequest, bodyRuns |-> 0]

Init ==
    /\ task = [p \in Tasks |-> IdleTask]
    /\ handle = [p \in Tasks |-> NoHandle]
    /\ sess = [s \in Runners |-> "unused"]
    /\ lockHolder = [id \in LockIds |-> Free]
    /\ nextRunner = [p \in Tasks |-> 0]
    /\ counter = [k \in Keys |-> 0]
    /\ fnRuns = [k \in Keys |-> 0]
    /\ nbFn = {}
    /\ opsLeft = MaxOps
    /\ faultsLeft = MaxFailures

\* ---------------------------------------------------------------- engine
\* the engine ends a session: every lock it held is revoked
Revoke(holders, s) ==
    [id \in LockIds |-> IF holders[id] = s THEN Free ELSE holders[id]]

\* variant: the engine grants whatever is held
GrantableAlways(s, id) == TRUE

\* pg_advisory_lock / pg_try_advisory_lock grant only a free identifier
\* (or one the asking session already holds)
Grantable(s, id) == lockHolder[id] = Free \/ lockHolder[id] = s

EngineLock(s, id) == [lockHolder EXCEPT ![id] = s]

\* variant: an unlock frees the identifier whichever session asks
EngineUnlockAny(s, id) == [lockHolder EXCEPT ![id] = Free]

\* pg_advisory_unlock releases only what the asking session holds
EngineUnlock(s, id) ==
    IF lockHolder[id] = s THEN [lockHolder EXCEPT ![id] = Free] ELSE lockHolder

\* variant: the pg_locks query without `granted = true` also sees the
\* requests that wait for the identifier
EngineHeldOrAwaited(id) ==
    \/ lockHolder[id] # Free
    \/ \E p \in Tasks : task[p].pc = "lock" /\ task[p].lockKey = id

\* pg_locks: a granted advisory lock on the identifier exists
EngineHeld(id) == lockHolder[id] # Free

CanFail == faultsLeft > 0

\* the connection of session s is lost: the engine ends the session
Break(s) ==
    /\ sess' = [sess EXCEPT ![s] = "closed"]
    /\ lockHolder' = Revoke(lockHolder, s)
    /\ faultsLeft' = faultsLeft - 1

\* one statement on session s fails, the connection lives on
StatementFails(s) ==
    /\ faultsLeft' = faultsLeft - 1
    /\ UNCHANGED <<sess, lockHolder>>

\* a query, or the release, of query runner s rejects
QueryFails(s) == Break(s) \/ StatementFails(s)

\* queryRunner.release(): the runner is done with and its connection goes
\* back to the pool, which keeps it (and the locks of its session) or ends it
Close(s) ==
    /\ sess' = [sess EXCEPT ![s] = "closed"]
    /\ lockHolder' \in {lockHolder, Revoke(lockHolder, s)}

SetTask(p, t) == task' = [task EXCEPT ![p] = t]

\* ---------------------------------------------------------------- acquire
\* variant: the handle does not keep the query runner of the grant
NewHandleUnbound(t, runner, granted) ==
    [key |-> t.key, lockKey |-> t.lockKey, queryRunner |-> NoRunner,
     wait |-> t.wait, ttl |-> t.opts.ttl, grantedOn |-> granted,
     live |-> TRUE, releaseCalls |-> 0, runnerReleases |-> 0]

\* the LockHandle of a successful acquire; `runner` is what tryAcquireLock
\* returned as queryRunner, `granted` the session the grant was made on
NewHandle(t, runner, granted) ==
    [key |-> t.key, lockKey |-> t.lockKey, queryRunner |-> runner,
     wait |-> t.wait, ttl |-> t.opts.ttl, grantedOn |-> granted,
     live |-> TRUE, releaseCalls |-> 0, runnerReleases |-> 0]

\* withLock is running, called by the caller or by the interceptor
Scoped(t) == t.op \in {"withLock", "intercept"}

\* acquire returns the handle; inside withLock, fn is called next
AcquireReturns(p, t, runner) ==
    /\ handle' = [handle EXCEPT ![p] = NewHandle(t, runner, t.queryRunner)]
    /\ IF Scoped(t)
       THEN /\ SetTask(p, [t EXCEPT !.pc = "fn", !.fnCalls = @ + 1])
            /\ nbFn' = IF t.wait THEN nbFn ELSE nbFn \cup {t.key}
       ELSE /\ SetTask(p, [t EXCEPT !.pc = "done", !.outcome = "handle"])
            /\ UNCHANGED nbFn

\* variant: withLock awaits acquire inside its try block, so that the
\* finally block runs lock.release() on an undefined lock
AcquireThrowsInTry(p, t, err) ==
    /\ SetTask(p, [t EXCEPT !.pc = "done",
                            !.outcome = IF t.op = "withLock"
                                        THEN "TypeError" ELSE err,
                            !.releases = IF t.op = "withLock"
                                         THEN @ + 1 ELSE @])
    /\ UNCHANGED <<handle, nbFn>>

\* variant: the interceptor's catch block logs the error of withLock and
\* goes on to the handler
AcquireThrowsThenHandles(p, t, err) ==
    /\ SetTask(p, [t EXCEPT !.pc = IF t.op = "intercept" THEN "subscribe"
                                   ELSE "done",
                            !.outcome = err,
                            !.thrown = LockAcquireTimeoutException(
                                           t.key, t.timeout)])
    /\ UNCHANGED <<handle, nbFn>>

\* acquire rejects; withLock rejects with the same error, before its try
AcquireThrows(p, t, err) ==
    /\ SetTask(p, [t EXCEPT !.pc = "done", !.outcome = err,
                            !.thrown = LockAcquireTimeoutException(
                                           t.key, t.timeout)])
    /\ UNCHANGED <<handle, nbFn>>

\* variant: the catch block sleeps before it looks at the attempt number,
\* so that the last attempt is followed by a sleep as well
AcquireCatchAlwaysSleeps(p, t, err) ==
    /\ SetTask(p, [t EXCEPT !.pc = "sleep"])
    /\ UNCHANGED <<handle, nbFn>>

\* variant: after the last attempt the catch block rethrows what it caught
AcquireCatchRethrows(p, t, err) ==
    IF t.attempt = t.maxRetries
    THEN /\ SetTask(p, [t EXCEPT !.pc = "done", !.outcome = err])
         /\ UNCHANGED <<handle, nbFn>>
    ELSE /\ SetTask(p, [t EXCEPT !.pc = "sleep"])
         /\ UNCHANGED <<handle, nbFn>>

\* catch (error) { if (attempt === maxRetries) throw timeout; await sleep }
AcquireCatch(p, t, err) ==
    IF t.attempt = t.maxRetries
    THEN AcquireThrows(p, t, "AcquireTimeout")
    ELSE /\ SetTask(p, [t EXCEPT !.pc = "sleep"])
         /\ UNCHANGED <<handle, nbFn>>

\* variant: the loop tests its condition after the body (do ... while)
EnterLoopAtLeastOnce(p, t) ==
    IF t.attempt <= t.maxRetries \/ t.attempt = 0
    THEN /\ nextRunner' = [nextRunner EXCEPT ![p] = @ + 1]
         /\ sess' = [sess EXCEPT ![<<p, nextRunner[p] + 1>>] = "created"]
         /\ SetTask(p, [t EXCEPT !.pc = "connect",
                                 !.queryRunner = <<p, nextRunner[p] + 1>>])
         /\ UNCHANGED <<handle, nbFn>>
    ELSE /\ AcquireThrows(p, t, "AcquireTimeout")
         /\ UNCHANGED <<nextRunner, sess>>

\* for (...; attempt <= maxRetries; ...): the next attempt creates its
\* query runner and calls connect(), or the loop ends in the final throw
EnterLoop(p, t) ==
    IF t.attempt <= t.maxRetries
    THEN /\ nextRunner' = [nextRunner EXCEPT ![p] = @ + 1]
         /\ sess' = [sess EXCEPT ![<<p, nextRunner[p] + 1>>] = "created"]
         /\ SetTask(p, [t EXCEPT !.pc = "connect",
                                 !.queryRunner = <<p, nextRunner[p] + 1>>])
         /\ UNCHANGED <<handle, nbFn>>
    ELSE /\ AcquireThrows(p, t, "AcquireTimeout")
         /\ UNCHANGED <<nextRunner, sess>>

NewCall(op, k, w, mr) ==
    [IdleTask EXCEPT !.op = op, !.key = k, !.lockKey = generateLockKey(k),
                     !.wait = w, !.maxRetries = mr,
                     !.opts = [NoOptions EXCEPT !.wait = <<w>>,
                                                !.maxRetries = <<mr>>]]

CanStart(p) ==
    /\ task[p].pc = "idle"
    /\ opsLeft > 0

\* lockService.acquire(key, {wait, maxRetries})
StartAcquire(p) ==
    /\ CanStart(p)
    /\ ~handle[p].live
    /\ \E k \in Keys, w \in BOOLEAN, mr \in 0 .. MaxRetriesOpt :
          EnterLoop(p, NewCall("acquire", k, w, mr))
    /\ opsLeft' = opsLeft - 1
    /\ UNCHANGED <<lockHolder, counter, fnRuns, faultsLeft>>

\* const { timeout = this.defaultTimeout, ... } = options
WithTimeout(t, opt) ==
    [t EXCEPT !.optTimeout = opt, !.opts.timeout = opt,
              !.timeout = IF opt = <<>> THEN defaultTimeout ELSE opt[1]]

\* lockService.acquire(key, {timeout, wait, maxRetries})
StartAcquireTimeout(p) ==
    /\ CanStart(p)
    /\ ~handle[p].live
    /\ \E k \in Keys, w \in BOOLEAN, mr \in 0 .. MaxRetriesOpt :
          EnterLoop(p, WithTimeout(NewCall("acquire", k, w, mr),
                                   <<OptTimeout>>))
    /\ opsLeft' = opsLeft - 1
    /\ UNCHANGED <<lockHolder, counter, fnRuns, faultsLeft>>

\* the options a call may give: each of timeout, wait, maxRetries,
\* retryDelay and ttl is omitted or given, maxRetries as 0 or below 0
AcquireOptions ==
    [timeout : {<<>>, <<OptTimeout>>}, wait : {<<>>, <<FALSE>>},
     maxRetries : {<<>>, <<0>>, <<0 - 1>>}, retryDelay : {<<>>, <<0>>},
     ttl : {<<>>, <<OptTtl>>}]

\* const { timeout = this.defaultTimeout, wait = true,
\*         maxRetries = this.maxRetries, retryDelay = this.retryDelay }
\*   = options   (ttl is not read)
WithOptions(t, o) ==
    [t EXCEPT !.opts = o, !.optTimeout = o.timeout,
              !.timeout = OptionOr(o.timeout, defaultTimeout),
              !.wait = OptionOr(o.wait, TRUE),
              !.maxRetries = OptionOr(o.maxRetries, maxRetries),
              !.retryDelay = OptionOr(o.retryDelay, retryDelay)]

\* lockService.acquire(key, options)
StartAcquireOptions(p) ==
    /\ CanStart(p)
    /\ ~handle[p].live
    /\ \E k \in Keys, o \in AcquireOptions :
          EnterLoop(p, WithOptions(NewCall("acquire", k, TRUE, 0), o))
    /\ opsLeft' = opsLeft - 1
    /\ UNCHANGED <<lockHolder, counter, fnRuns, faultsLeft>>

\* lockService.acquire(key, {wait, maxRetries: 0}) on one of the keys that
\* share an identifier, or on another key
StartAcquireColliding(p) ==
    /\ CanStart(p)
    /\ ~handle[p].live
    /\ \E k \in CollidingKeys \cup {KeyA}, w \in BOOLEAN :
          EnterLoop(p, NewCall("acquire", k, w, 0))
    /\ opsLeft' = opsLeft - 1
    /\ UNCHANGED <<lockHolder, counter, fnRuns, faultsLeft>>

\* lockService.acquire(key, { ttl }) or lockService.acquire(key)
StartAcquireTtl(p) ==
    /\ CanStart(p)
    /\ ~handle[p].live
    /\ \E k \in Keys, ttl \in {<<>>, <<OptTtl>>} :
          EnterLoop(p, WithOptions(NewCall("acquire", k, TRUE, 0),
                                   [NoOptions EXCEPT !.ttl = ttl]))
    /\ opsLeft' = opsLeft - 1
    /\ UNCHANGED <<lockHolder, counter, fnRuns, faultsLeft>>

\* lockService.withLock(key, fn, {wait, maxRetries})
StartWithLock(p) ==
    /\ CanStart(p)
    /\ ~handle[p].live
    /\ \E k \in Keys, w \in BOOLEAN, mr \in 0 .. MaxRetriesOpt :
          EnterLoop(p, NewCall("withLock", k, w, mr))
    /\ opsLeft' = opsLeft - 1
    /\ UNCHANGED <<lockHolder, counter, fnRuns, faultsLeft>>

\* a coordinator's one call lockService.withLock(key, fn) on the key that
\* all of them use, with no options
StartWithLockOnce(p) ==
    /\ CanStart(p)
    /\ nextRunner[p] = 0
    /\ EnterLoop(p, WithOptions(NewCall("withLock", KeyA, TRUE, 0), NoOptions))
    /\ opsLeft' = opsLeft - 1
    /\ UNCHANGED <<lockHolder, counter, fnRuns, faultsLeft>>

\* a coordinator's one call lockService.withLock(key, fn, {wait,
\* maxRetries: 0}) on the key that all of them use
StartWithLockPooled(p) ==
    /\ CanStart(p)
    /\ nextRunner[p] = 0
    /\ \E w \in BOOLEAN : EnterLoop(p, NewCall("withLock", KeyA, w, 0))
    /\ opsLeft' = opsLeft - 1
    /\ UNCHANGED <<lockHolder, counter, fnRuns, faultsLeft>>

\* variant: the non-blocking probe is used whatever `wait` says
GrantPcProbe(t) == "tryLock"

\* if (wait) pg_advisory_lock else pg_try_advisory_lock
GrantPc(t) == IF t.wait THEN "lock" ELSE "tryLock"

\* await queryRunner.connect() resolves; the grant request is issued
Connect(p) ==
    LET t == task[p] IN
    /\ t.pc = "connect"
    /\ sess' = [sess EXCEPT ![t.queryRunner] = "open"]
    /\ SetTask(p, [t EXCEPT !.pc = GrantPc(t), !.attempts = @ + 1])
    /\ UNCHANGED <<handle, lockHolder, nextRunner, counter, fnRuns, nbFn,
                   opsLeft, faultsLeft>>

\* the data source's pool keeps at most PoolSize connections, as many as
\* there are coordinators; a connected query runner occupies one until it
\* is released
PoolSize == NumTasks
PooledSessions == {s \in Runners : sess[s] = "open"}
PoolHasRoom == Cardinality(PooledSessions) < PoolSize

\* await queryRunner.connect() resolves once the pool has a connection
ConnectPooled(p) ==
    /\ PoolHasRoom
    /\ Connect(p)

\* await queryRunner.connect() rejects
ConnectFails(p) ==
    LET t == task[p] IN
    /\ t.pc = "connect"
    /\ CanFail
    /\ faultsLeft' = faultsLeft - 1
    /\ SetTask(p, [t EXCEPT !.pc = "tryCatch", !.errors = @ + 1])
    /\ UNCHANGED <<handle, sess, lockHolder, nextRunner, counter, fnRuns,
                   nbFn, opsLeft>>

\* variant: the blocking request gives up while the identifier is held
\* (a client-side deadline) and the attempt ends in acquire's catch block
LockGrantedOrDeadline(p) ==
    LET t == task[p] IN
    /\ t.pc = "lock"
    /\ IF Grantable(t.queryRunner, t.lockKey)
       THEN /\ lockHolder' = EngineLock(t.queryRunner, t.lockKey)
            /\ AcquireReturns(p, t, t.queryRunner)
            /\ UNCHANGED sess
       ELSE /\ Close(t.queryRunner)
            /\ AcquireCatch(p, t, "deadline")
    /\ UNCHANGED <<nextRunner, counter, fnRuns, opsLeft, faultsLeft>>

\* SELECT pg_advisory_lock($1) returns: the engine granted the lock
LockGranted(p) ==
    LET t == task[p] IN
    /\ t.pc = "lock"
    /\ Grantable(t.queryRunner, t.lockKey)
    /\ lockHolder' = EngineLock(t.queryRunner, t.lockKey)
    /\ AcquireReturns(p, t, t.queryRunner)
    /\ UNCHANGED <<sess, nextRunner, counter, fnRuns, opsLeft, faultsLeft>>

\* SELECT pg_advisory_lock($1) rejects: the connection failed
LockFails(p) ==
    LET t == task[p] IN
    /\ t.pc = "lock"
    /\ CanFail
    /\ QueryFails(t.queryRunner)
    /\ SetTask(p, [t EXCEPT !.pc = "tryCatch", !.errors = @ + 1])
    /\ UNCHANGED <<handle, nextRunner, counter, fnRuns, nbFn, opsLeft>>

\* SELECT pg_try_advisory_lock($1) AS locked returns one row
TryLock(p) ==
    LET t == task[p]
        locked == Grantable(t.queryRunner, t.lockKey)
    IN
    /\ t.pc = "tryLock"
    /\ lockHolder' = IF locked THEN EngineLock(t.queryRunner, t.lockKey)
                     ELSE lockHolder
    /\ SetTask(p, [t EXCEPT !.locked = locked,
                            !.refusals = IF locked THEN @ ELSE @ + 1,
                            !.pc = IF locked THEN "tryUnlock" ELSE "tryRelease"])
    /\ UNCHANGED <<handle, sess, nextRunner, counter, fnRuns, nbFn, opsLeft,
                   faultsLeft>>

TryLockFails(p) ==
    LET t == task[p] IN
    /\ t.pc = "tryLock"
    /\ CanFail
    /\ QueryFails(t.queryRunner)
    /\ SetTask(p, [t EXCEPT !.pc = "tryCatch", !.errors = @ + 1])
    /\ UNCHANGED <<handle, nextRunner, counter, fnRuns, nbFn, opsLeft>>

\* if (locked) await queryRunner.query('SELECT pg_advisory_unlock($1)')
TryUnlock(p) ==
    LET t == task[p] IN
    /\ t.pc = "tryUnlock"
    /\ lockHolder' = EngineUnlock(t.queryRunner, t.lockKey)
    /\ SetTask(p, [t EXCEPT !.pc = "tryRelease"])
    /\ UNCHANGED <<handle, sess, nextRunner, counter, fnRuns, nbFn, opsLeft,
                   faultsLeft>>

TryUnlockFails(p) ==
    LET t == task[p] IN
    /\ t.pc = "tryUnlock"
    /\ CanFail
    /\ QueryFails(t.queryRunner)
    /\ SetTask(p, [t EXCEPT !.pc = "tryCatch", !.errors = @ + 1])
    /\ UNCHANGED <<handle, nextRunner, counter, fnRuns, nbFn, opsLeft>>

\* variant: the non-blocking attempt returns without queryRunner.release()
TryReleaseKeepsSession(p) ==
    LET t == task[p] IN
    /\ t.pc = "tryRelease"
    /\ IF t.locked
       THEN AcquireReturns(p, t, NoRunner)
       ELSE AcquireCatch(p, t, "AlreadyHeld")
    /\ UNCHANGED <<sess, lockHolder, nextRunner, counter, fnRuns, opsLeft,
                   faultsLeft>>

\* await queryRunner.release(); return { acquired: locked }; back in
\* acquire: the handle (without runner), or throw LockAlreadyHeldException
\* inside the try block
TryRelease(p) ==
    LET t == task[p] IN
    /\ t.pc = "tryRelease"
    /\ Close(t.queryRunner)
    /\ IF t.locked
       THEN AcquireReturns(p, t, NoRunner)
       ELSE AcquireCatch(p, t, "AlreadyHeld")
    /\ UNCHANGED <<nextRunner, counter, fnRuns, opsLeft, faultsLeft>>

TryReleaseFails(p) ==
    LET t == task[p] IN
    /\ t.pc = "tryRelease"
    /\ CanFail
    /\ QueryFails(t.queryRunner)
    /\ SetTask(p, [t EXCEPT !.pc = "tryCatch", !.errors = @ + 1])
    /\ UNCHANGED <<handle, nextRunner, counter, fnRuns, nbFn, opsLeft>>

\* catch (error) { await queryRunner.release().catch(() => {}); throw error }
\* (whether this release resolves or rejects makes no difference)
TryCatch(p) ==
    LET t == task[p] IN
    /\ t.pc = "tryCatch"
    /\ Close(t.queryRunner)
    /\ AcquireCatch(p, t, "error")
    /\ UNCHANGED <<nextRunner, counter, fnRuns, opsLeft, faultsLeft>>

\* await this.sleep(retryDelay); attempt++
Sleep(p) ==
    LET t == task[p] IN
    /\ t.pc = "sleep"
    /\ EnterLoop(p, [t EXCEPT !.sleeps = @ + 1, !.attempt = @ + 1,
                              !.slept = @ + t.retryDelay])
    /\ UNCHANGED <<lockHolder, counter, fnRuns, opsLeft, faultsLeft>>

\* --------------------------------------------------------------- withLock
\* fn(): counter++ on a counter shared between processes is a read ...
FnRead(p) ==
    LET t == task[p] IN
    /\ t.op = "withLock" /\ t.pc = "fn"
    /\ SetTask(p, [t EXCEPT !.pc = "fnWrite", !.tmp = counter[t.key]])
    /\ UNCHANGED <<handle, sess, lockHolder, nextRunner, counter, fnRuns,
                   nbFn, opsLeft, faultsLeft>>

\* lock.release() is releaseWithRunner(key, lockKey, queryRunner):
\* if (queryRunner) the unlock goes to that runner, else to this.release(key)
ReleasePc(h) == IF h.queryRunner # NoRunner THEN "relUnlock" ELSE "relKey"

\* variant: no finally block, the release is skipped when fn rejects
AfterFnNoFinally(t, h, r) ==
    IF r = "error"
    THEN [t EXCEPT !.pc = "done", !.fnResult = r, !.outcome = r]
    ELSE [t EXCEPT !.pc = ReleasePc(h), !.queryRunner = h.queryRunner,
                   !.fnResult = r, !.releases = @ + 1]

\* try { return await fn() } finally { await lock.release() }: whatever
\* fn's result r, lock.release() is called next
AfterFn(t, h, r) ==
    [t EXCEPT !.pc = ReleasePc(h), !.queryRunner = h.queryRunner,
              !.fnResult = r, !.releases = @ + 1]

\* ... and a write; fn then resolves with its value or rejects with its
\* error
FnWrite(p) ==
    LET t == task[p] IN
    /\ t.pc = "fnWrite"
    /\ counter' = [counter EXCEPT ![t.key] = t.tmp + 1]
    /\ fnRuns' = [fnRuns EXCEPT ![t.key] = @ + 1]
    /\ \E r \in {"value", "error"} : SetTask(p, AfterFn(t, handle[p], r))
    /\ UNCHANGED <<handle, sess, lockHolder, nextRunner, nbFn, opsLeft,
                   faultsLeft>>

\* ---------------------------------------------------------------- release
\* the caller invokes handle.release()
HandleRelease(p) ==
    LET h == handle[p] IN
    /\ CanStart(p)
    /\ h.key # <<>>
    /\ SetTask(p, [IdleTask EXCEPT !.op = "handleRelease", !.key = h.key,
                                   !.lockKey = h.lockKey,
                                   !.queryRunner = h.queryRunner,
                                   !.releases = 1,
                                   !.pc = ReleasePc(h)])
    /\ opsLeft' = opsLeft - 1
    /\ UNCHANGED <<handle, sess, lockHolder, nextRunner, counter, fnRuns,
                   nbFn, faultsLeft>>

\* variant: an error met while releasing replaces the result of fn
WithLockOutcomeMasked(t) ==
    IF t.relErrors > 0 THEN "releaseError" ELSE t.fnResult

\* withLock once the finally block is through: `return await fn()` gives
\* fn's value, or fn's error is rethrown
WithLockOutcome(t) == t.fnResult

\* releaseWithRunner / release resolve (they never reject)
ReleaseDone(p, t) ==
    /\ SetTask(p, IF t.op = "intercept"
                  THEN [t EXCEPT !.pc = "subscribe"]
                  ELSE [t EXCEPT !.pc = "done",
                                 !.outcome = IF t.op = "withLock"
                                             THEN WithLockOutcome(t)
                                             ELSE "released"])
    /\ handle' = IF t.op = "releaseKey" THEN handle
                 ELSE [handle EXCEPT ![p].live = FALSE,
                                     ![p].releaseCalls = @ + 1,
                                     ![p].runnerReleases =
                                        IF t.pc \in {"relClose", "relCatch"}
                                        THEN @ + 1 ELSE @]

\* await queryRunner.query('SELECT pg_advisory_unlock($1) AS unlocked')
RelUnlock(p) ==
    LET t == task[p] IN
    /\ t.pc = "relUnlock"
    /\ sess[t.queryRunner] = "open"
    /\ lockHolder' = EngineUnlock(t.queryRunner, t.lockKey)
    /\ SetTask(p, [t EXCEPT !.pc = "relClose"])
    /\ UNCHANGED <<handle, sess, nextRunner, counter, fnRuns, nbFn, opsLeft,
                   faultsLeft>>

\* the unlock rejects: the connection fails, or the runner was released
\* before (QueryRunnerAlreadyReleasedError)
RelUnlockFails(p) ==
    LET t == task[p] IN
    /\ t.pc = "relUnlock"
    /\ IF sess[t.queryRunner] = "open"
       THEN CanFail /\ QueryFails(t.queryRunner)
       ELSE UNCHANGED <<sess, lockHolder, faultsLeft>>
    /\ SetTask(p, [t EXCEPT !.pc = "relCatch", !.relErrors = @ + 1])
    /\ UNCHANGED <<handle, nextRunner, counter, fnRuns, nbFn, opsLeft>>

\* variant: releaseWithRunner unlocks but keeps the query runner
RelCloseKeepsSession(p) ==
    LET t == task[p] IN
    /\ t.pc = "relClose"
    /\ ReleaseDone(p, t)
    /\ UNCHANGED <<sess, lockHolder, nextRunner, counter, fnRuns, nbFn,
                   opsLeft, faultsLeft>>

\* await queryRunner.release()
RelClose(p) ==
    LET t == task[p] IN
    /\ t.pc = "relClose"
    /\ Close(t.queryRunner)
    /\ ReleaseDone(p, t)
    /\ UNCHANGED <<nextRunner, counter, fnRuns, nbFn, opsLeft, faultsLeft>>

RelCloseFails(p) ==
    LET t == task[p] IN
    /\ t.pc = "relClose"
    /\ CanFail
    /\ QueryFails(t.queryRunner)
    /\ SetTask(p, [t EXCEPT !.pc = "relCatch", !.relErrors = @ + 1])
    /\ UNCHANGED <<handle, nextRunner, counter, fnRuns, nbFn, opsLeft>>

\* variant: the catch block releases the runner and rethrows the error
RelCatchRethrows(p) ==
    LET t == task[p] IN
    /\ t.pc = "relCatch"
    /\ Close(t.queryRunner)
    /\ SetTask(p, [t EXCEPT !.pc = "done", !.outcome = "error"])
    /\ UNCHANGED <<handle, nextRunner, counter, fnRuns, nbFn, opsLeft,
                   faultsLeft>>

\* catch (error) { if (queryRunner) await queryRunner.release().catch() }
\* (whether this release resolves or rejects makes no difference)
RelCatch(p) ==
    LET t == task[p] IN
    /\ t.pc = "relCatch"
    /\ Close(t.queryRunner)
    /\ ReleaseDone(p, t)
    /\ UNCHANGED <<nextRunner, counter, fnRuns, nbFn, opsLeft, faultsLeft>>

\* lockService.release(key)
StartRelease(p) ==
    /\ CanStart(p)
    /\ \E k \in Keys :
          SetTask(p, [NewCall("releaseKey", k, TRUE, 0) EXCEPT !.pc = "relKey"])
    /\ opsLeft' = opsLeft - 1
    /\ UNCHANGED <<handle, sess, lockHolder, nextRunner, counter, fnRuns,
                   nbFn, faultsLeft>>

\* variant: release(key) throws LockNotHeldException when the engine
\* answers unlocked = false
RelKeyNotHeldThrows(p) ==
    LET t == task[p] IN
    /\ t.pc = "relKey"
    /\ lockHolder' = EngineUnlock(PoolSession, t.lockKey)
    /\ IF lockHolder[t.lockKey] = PoolSession
       THEN ReleaseDone(p, t)
       ELSE /\ SetTask(p, [t EXCEPT !.pc = "done", !.outcome = "NotHeld"])
            /\ UNCHANGED handle
    /\ UNCHANGED <<sess, nextRunner, counter, fnRuns, nbFn, opsLeft, faultsLeft>>

\* release(key): await this.dataSource.query('SELECT pg_advisory_unlock($1)
\* AS unlocked') on a pooled connection; "not held" is only logged
RelKey(p) ==
    LET t == task[p] IN
    /\ t.pc = "relKey"
    /\ lockHolder' = EngineUnlock(PoolSession, t.lockKey)
    /\ ReleaseDone(p, t)
    /\ UNCHANGED <<sess, nextRunner, counter, fnRuns, nbFn, opsLeft, faultsLeft>>

\* release(key): dataSource.query runs once the pool has a connection
RelKeyPooled(p) ==
    /\ PoolHasRoom
    /\ RelKey(p)

\* release(key): the query rejects; the error is logged, not rethrown
RelKeyFails(p) ==
    LET t == task[p] IN
    /\ t.pc = "relKey"
    /\ CanFail
    /\ faultsLeft' = faultsLeft - 1
    /\ ReleaseDone(p, [t EXCEPT !.relErrors = @ + 1])
    /\ UNCHANGED <<sess, lockHolder, nextRunner, counter, fnRuns, nbFn,
                   opsLeft>>

\* --------------------------------------------------------------- isLocked
\* variant: the test on the result rows is inverted
IsLockedInverted(id) == ~EngineHeld(id)

\* result.length > 0 for the pg_locks query
IsLockedResult(id) == EngineHeld(id)

\* lockService.isLocked(key), the query succeeding
IsLocked(p) ==
    /\ CanStart(p)
    /\ \E k \in Keys :
          SetTask(p, [NewCall("isLocked", k, TRUE, 0)
                         EXCEPT !.pc = "done", !.outcome = "isLocked",
                                !.isLockedResult =
                                    IsLockedResult(generateLockKey(k))])
    /\ opsLeft' = opsLeft - 1
    /\ UNCHANGED <<handle, sess, lockHolder, nextRunner, counter, fnRuns,
                   nbFn, faultsLeft>>

\* variant: isLocked rethrows the error of the query
IsLockedFailsRethrows(p) ==
    /\ CanStart(p)
    /\ CanFail
    /\ \E k \in Keys :
          SetTask(p, [NewCall("isLocked", k, TRUE, 0)
                         EXCEPT !.pc = "done", !.outcome = "error",
                                !.relErrors = 1])
    /\ opsLeft' = opsLeft - 1
    /\ faultsLeft' = faultsLeft - 1
    /\ UNCHANGED <<handle, sess, lockHolder, nextRunner, counter, fnRuns,
                   nbFn>>

\* lockService.isLocked(key), the query rejecting: catch { return false }
IsLockedFails(p) ==
    /\ CanStart(p)
    /\ CanFail
    /\ \E k \in Keys :
          SetTask(p, [NewCall("isLocked", k, TRUE, 0)
                         EXCEPT !.pc = "done", !.outcome = "isLocked",
                                !.relErrors = 1, !.isLockedResult = FALSE])
    /\ opsLeft' = opsLeft - 1
    /\ faultsLeft' = faultsLeft - 1
    /\ UNCHANGED <<handle, sess, lockHolder, nextRunner, counter, fnRuns,
                   nbFn>>

\* the caller's continuation takes the settled promise; the handle that
\* withLock held was local to it
Settle(p) ==
    /\ task[p].pc = "done"
    /\ SetTask(p, IdleTask)
    /\ handle' = IF Scoped(task[p]) /\ task[p].fnCalls > 0
                 THEN [handle EXCEPT ![p] = NoHandle]
                 ELSE handle
    /\ UNCHANGED <<sess, lockHolder, nextRunner, counter, fnRuns, nbFn,
                   opsLeft, faultsLeft>>

\* -------------------------------------------------------------- KeyHasher
\* some coordinator computes this.generateLockKey(key)
GenerateLockKey(p) ==
    /\ task[p].pc = "idle"
    /\ \E k \in HashKeys :
          SetTask(p, [IdleTask EXCEPT !.op = "generateLockKey", !.key = k,
                                      !.lockKey = generateLockKey(k),
                                      !.pc = "done", !.outcome = "lockKey"])
    /\ UNCHANGED <<handle, sess, lockHolder, nextRunner, counter, fnRuns,
                   nbFn, opsLeft, faultsLeft>>

\* ------------------------------------------------------------ interceptor
\* a request reaches a method decorated with @Lock({ key }):
\* intercept calls lockService.withLock(lockKey, fn, finalOptions)
StartIntercept(p) ==
    /\ CanStart(p)
    /\ ~handle[p].live
    /\ \E k \in Keys :
          EnterLoop(p, NewCall("intercept", k, TRUE, MaxRetriesOpt))
    /\ opsLeft' = opsLeft - 1
    /\ UNCHANGED <<lockHolder, counter, fnRuns, faultsLeft>>

\* variant: the metadata is read whether or not there is a Reflector
getLockOptionsUnguarded(reflector, metadata) == metadata

\* getLockOptions: null without Reflector, else what reflector.get finds
\* for LOCK_METADATA_KEY on the handler (nothing: undefined)
getLockOptions(reflector, metadata) ==
    IF ~reflector THEN <<>> ELSE metadata

\* a request reaches a handler behind the interceptor; the handler works
\* on the resource c and carries @Lock({ key: c, wait, maxRetries: 0 }) or
\* no metadata.  if (!lockOptions) return next.handle(); else withLock
StartRequest(p) ==
    /\ CanStart(p)
    /\ ~handle[p].live
    /\ \E c \in Keys, reflector \in BOOLEAN :
       \E metadata \in {<<>>} \cup {<<[key |-> c, wait |-> w]>> : w \in BOOLEAN} :
          LET lockOptions == getLockOptions(reflector, metadata)
              request == [reflector |-> reflector, metadata |-> metadata,
                          isRequest |-> TRUE]
          IN  IF lockOptions = <<>>
              THEN /\ SetTask(p, [IdleTask EXCEPT !.op = "passThrough",
                                                  !.key = c,
                                                  !.request = request,
                                                  !.pc = "subscribe"])
                   /\ UNCHANGED <<handle, sess, nextRunner, nbFn>>
              ELSE EnterLoop(p, [NewCall("intercept", lockOptions[1].key,
                                         lockOptions[1].wait, 0)
                                   EXCEPT !.request = request])
    /\ opsLeft' = opsLeft - 1
    /\ UNCHANGED <<lockHolder, counter, fnRuns, faultsLeft>>

\* fn: result$ = next.handle().pipe(tap(...)); resolve(result$): the
\* observable is handed back, nothing has subscribed to it
InterceptFn(p) ==
    LET t == task[p] IN
    /\ t.op = "intercept" /\ t.pc = "fn"
    /\ SetTask(p, AfterFn(t, handle[p], "value"))
    /\ UNCHANGED <<handle, sess, lockHolder, nextRunner, counter, fnRuns,
                   nbFn, opsLeft, faultsLeft>>

\* intercept has returned the observable that withLock resolved with; the
\* framework subscribes to it and the decorated method starts: like fn of
\* the counter test, its body is a read ...
Subscribe(p) ==
    LET t == task[p] IN
    /\ t.pc = "subscribe"
    /\ SetTask(p, [t EXCEPT !.pc = "body", !.tmp = counter[t.key],
                            !.bodyRuns = @ + 1])
    /\ UNCHANGED <<handle, sess, lockHolder, nextRunner, counter, fnRuns,
                   nbFn, opsLeft, faultsLeft>>

\* ... and a write, after which the method completes or throws
MethodCompletes(p) ==
    LET t == task[p] IN
    /\ t.pc = "body"
    /\ counter' = [counter EXCEPT ![t.key] = t.tmp + 1]
    /\ fnRuns' = [fnRuns EXCEPT ![t.key] = @ + 1]
    /\ \E r \in {"value", "error"} :
          SetTask(p, [t EXCEPT !.pc = "done", !.outcome = r])
    /\ UNCHANGED <<handle, sess, lockHolder, nextRunner, nbFn, opsLeft,
                   faultsLeft>>

\* ------------------------------------------------------------------- spec
Next ==
    \E p \in Tasks :
        \/ StartAcquire(p)
        \/ StartWithLock(p)
        \/ Connect(p)
        \/ ConnectFails(p)
        \/ LockGranted(p)
        \/ LockFails(p)
        \/ TryLock(p)
        \/ TryLockFails(p)
        \/ TryUnlock(p)
        \/ TryUnlockFails(p)
        \/ TryRelease(p)
        \/ TryReleaseFails(p)
        \/ TryCatch(p)
        \/ Sleep(p)
        \/ FnRead(p)
        \/ FnWrite(p)
        \/ HandleRelease(p)
        \/ RelUnlock(p)
        \/ RelUnlockFails(p)
        \/ RelClose(p)
        \/ RelCloseFails(p)
        \/ RelCatch(p)
        \/ StartRelease(p)
        \/ RelKey(p)
        \/ RelKeyFails(p)
        \/ IsLocked(p)
        \/ IsLockedFails(p)
        \/ Settle(p)

Spec == Init /\ [][Next]_vars

\* acquire alone, against a database whose connections may fail at every
\* attempt of one call
InitRetry ==
    /\ task = [p \in Tasks |-> IdleTask]
    /\ handle = [p \in Tasks |-> NoHandle]
    /\ sess = [s \in Runners |-> "unused"]
    /\ lockHolder = [id \in LockIds |-> Free]
    /\ nextRunner = [p \in Tasks |-> 0]
    /\ counter = [k \in Keys |-> 0]
    /\ fnRuns = [k \in Keys |-> 0]
    /\ nbFn = {}
    /\ opsLeft = MaxOps
    /\ faultsLeft = MaxRetriesOpt + 1

NextRetry ==
    \E p \in Tasks :
        \/ StartAcquire(p)
        \/ StartAcquireTimeout(p)
        \/ Connect(p)
        \/ ConnectFails(p)
        \/ LockGranted(p)
        \/ LockFails(p)
        \/ TryLock(p)
        \/ TryLockFails(p)
        \/ TryUnlock(p)
        \/ TryUnlockFails(p)
        \/ TryRelease(p)
        \/ TryReleaseFails(p)
        \/ TryCatch(p)
        \/ Sleep(p)
        \/ Settle(p)

SpecRetry == InitRetry /\ [][NextRetry]_vars

\* a state before any call, with `ops` operations and `faults` failures
\* to come
InitWith(ops, faults) ==
    /\ task = [p \in Tasks |-> IdleTask]
    /\ handle = [p \in Tasks |-> NoHandle]
    /\ sess = [s \in Runners |-> "unused"]
    /\ lockHolder = [id \in LockIds |-> Free]
    /\ nextRunner = [p \in Tasks |-> 0]
    /\ counter = [k \in Keys |-> 0]
    /\ fnRuns = [k \in Keys |-> 0]
    /\ nbFn = {}
    /\ opsLeft = ops
    /\ faultsLeft = faults

\* acquire and handle.release() alone, called any number of times on a
\* handle, connections that do not fail
InitRelease == InitWith(MaxOps + 1, 0)

NextRelease ==
    \E p \in Tasks :
        \/ StartAcquire(p)
        \/ Connect(p)
        \/ LockGranted(p)
        \/ TryLock(p)
        \/ TryUnlock(p)
        \/ TryRelease(p)
        \/ Sleep(p)
        \/ HandleRelease(p)
        \/ RelUnlock(p)
        \/ RelUnlockFails(p)
        \/ RelClose(p)
        \/ RelCatch(p)
        \/ RelKey(p)
        \/ Settle(p)

SpecRelease == InitRelease /\ [][NextRelease]_vars

\* acquire with any options and handle.release(), connections that do
\* not fail
InitOptions == InitWith(MaxOps, 0)

NextOptions ==
    \E p \in Tasks :
        \/ StartAcquireOptions(p)
        \/ Connect(p)
        \/ LockGranted(p)
        \/ TryLock(p)
        \/ TryUnlock(p)
        \/ TryRelease(p)
        \/ Sleep(p)
        \/ HandleRelease(p)
        \/ RelUnlock(p)
        \/ RelClose(p)
        \/ RelKey(p)
        \/ Settle(p)

SpecOptions == InitOptions /\ [][NextOptions]_vars

\* blocking acquire with or without ttl, and handle.release(): every step
\* the service has begun goes on, but no caller is obliged to call
NextTtl ==
    \E p \in Tasks :
        \/ StartAcquireTtl(p)
        \/ Connect(p)
        \/ LockGranted(p)
        \/ HandleRelease(p)
        \/ RelUnlock(p)
        \/ RelClose(p)
        \/ Settle(p)

SpecTtl ==
    /\ InitOptions
    /\ [][NextTtl]_vars
    /\ \A p \in Tasks :
          /\ WF_vars(Connect(p))
          /\ WF_vars(LockGranted(p))
          /\ WF_vars(RelUnlock(p))
          /\ WF_vars(RelClose(p))
          /\ WF_vars(Settle(p))

\* every coordinator calls withLock once on one key; fn terminates, no
\* connection fails, and every step that can be taken is taken in the end
InitLive == InitWith(NumTasks, 0)

NextLive ==
    \E p \in Tasks :
        \/ StartWithLockOnce(p)
        \/ Connect(p)
        \/ LockGranted(p)
        \/ FnRead(p)
        \/ FnWrite(p)
        \/ RelUnlock(p)
        \/ RelClose(p)
        \/ Settle(p)

SpecLive ==
    /\ InitLive
    /\ [][NextLive]_vars
    /\ \A p \in Tasks :
          /\ WF_vars(StartWithLockOnce(p))
          /\ WF_vars(Connect(p))
          /\ WF_vars(LockGranted(p))
          /\ WF_vars(FnRead(p))
          /\ WF_vars(FnWrite(p))
          /\ WF_vars(RelUnlock(p))
          /\ WF_vars(RelClose(p))
          /\ WF_vars(Settle(p))

\* acquire and handle.release() on keys of which two share an identifier,
\* connections that do not fail
NextColliding ==
    \E p \in Tasks :
        \/ StartAcquireColliding(p)
        \/ Connect(p)
        \/ LockGranted(p)
        \/ TryLock(p)
        \/ TryUnlock(p)
        \/ TryRelease(p)
        \/ HandleRelease(p)
        \/ RelUnlock(p)
        \/ RelClose(p)
        \/ RelKey(p)
        \/ Settle(p)

SpecColliding == InitOptions /\ [][NextColliding]_vars

\* every coordinator calls withLock once on one key, all on one pool of
\* PoolSize connections; every step that can be taken is taken in the end
NextPool ==
    \E p \in Tasks :
        \/ StartWithLockPooled(p)
        \/ ConnectPooled(p)
        \/ LockGranted(p)
        \/ TryLock(p)
        \/ TryUnlock(p)
        \/ TryRelease(p)
        \/ FnRead(p)
        \/ FnWrite(p)
        \/ RelUnlock(p)
        \/ RelClose(p)
        \/ RelKeyPooled(p)
        \/ Settle(p)

SpecPool ==
    /\ InitLive
    /\ [][NextPool]_vars
    /\ \A p \in Tasks :
          /\ WF_vars(StartWithLockPooled(p))
          /\ WF_vars(ConnectPooled(p))
          /\ WF_vars(LockGranted(p))
          /\ WF_vars(TryLock(p))
          /\ WF_vars(TryUnlock(p))
          /\ WF_vars(TryRelease(p))
          /\ WF_vars(FnRead(p))
          /\ WF_vars(FnWrite(p))
          /\ WF_vars(RelUnlock(p))
          /\ WF_vars(RelClose(p))
          /\ WF_vars(RelKeyPooled(p))
          /\ WF_vars(Settle(p))

\* requests to handlers with and without @Lock, with and without a
\* Reflector; a connection may fail
InitRequest == InitWith(MaxOps, MaxFailures)

NextRequest ==
    \E p \in Tasks :
        \/ StartRequest(p)
        \/ Connect(p)
        \/ ConnectFails(p)
        \/ LockGranted(p)
        \/ LockFails(p)
        \/ TryLock(p)
        \/ TryUnlock(p)
        \/ TryRelease(p)
        \/ TryCatch(p)
        \/ InterceptFn(p)
        \/ RelUnlock(p)
        \/ RelClose(p)
        \/ RelKey(p)
        \/ Subscribe(p)
        \/ MethodCompletes(p)
        \/ Settle(p)

SpecRequest == InitRequest /\ [][NextRequest]_vars

\* the hasher alone, called again and again by every coordinator
NextHash == \E p \in Tasks : GenerateLockKey(p) \/ Settle(p)

SpecHash == Init /\ [][NextHash]_vars

\* requests to methods decorated with @Lock, connections that do not fail
InitIntercept == InitWith(MaxOps, 0)

NextIntercept ==
    \E p \in Tasks :
        \/ StartIntercept(p)
        \/ Connect(p)
        \/ LockGranted(p)
        \/ InterceptFn(p)
        \/ RelUnlock(p)
        \/ RelClose(p)
        \/ Subscribe(p)
        \/ MethodCompletes(p)
        \/ Settle(p)

SpecIntercept == InitIntercept /\ [][NextIntercept]_vars

\* ======================================================== properties
Acquiring(t) == t.op \in {"acquire", "withLock"}

InFn(p) == task[p].pc \in {"fn", "fnWrite"}

\* the handle of p has been returned and its release() not yet called
Outstanding(p) == handle[p].live /\ task[p].releases = 0

\* the caller whose session holds the identifier (0: nobody)
HolderTask(id) == lockHolder[id][1]

AcquireErrors == {"AcquireTimeout", "AlreadyHeld"}

\* the identifier is held for the outstanding blocking handle of a caller
\* other than p, who is not calling anything (and may never release)
HeldByIdleHolder(id, p) ==
    \E q \in Tasks :
        /\ q # p /\ task[q].pc = "idle"
        /\ Outstanding(q) /\ handle[q].wait /\ handle[q].lockKey = id
        /\ lockHolder[id] = handle[q].grantedOn

\* no query, connect or release has failed so far
NoFaultYet == faultsLeft = MaxFailures

\* the steps of acquire that are not connection failures
AcquireStep(p) ==
    \/ Connect(p) \/ LockGranted(p) \/ TryLock(p) \/ TryUnlock(p)
    \/ TryRelease(p) \/ TryCatch(p) \/ Sleep(p)

\* the positions of a call inside tryAcquireLock: an attempt is in flight
AttemptPcs == {"connect", "lock", "tryLock", "tryUnlock", "tryRelease",
               "tryCatch"}

\* the query runners of caller p that hold a connection
OpenSessions(p) ==
    {s \in Runners : s[1] = p /\ sess[s] \in {"created", "open"}}

\* ---- C1
\* C1: with wait = true, the executions of fn under withLock on one key
\* never overlap, and on a key that only blocking withLock calls have used
\* the shared counter equals the number of fn executions completed.
C1_Serialized ==
    /\ \A p, q \in Tasks :
          (p # q /\ InFn(p) /\ InFn(q) /\ task[p].wait /\ task[q].wait)
             => task[p].lockKey # task[q].lockKey
    /\ \A k \in Keys : k \notin nbFn => counter[k] = fnRuns[k]

\* a second fn runs on the key while another withLock call waits for it
C1_Witness ==
    \E p, q \in Tasks :
        /\ p # q /\ InFn(p) /\ task[p].wait
        /\ task[q].op = "withLock" /\ task[q].pc = "lock"
        /\ task[q].lockKey = task[p].lockKey
        /\ counter[task[p].key] = 1
        /\ task[p].key \notin nbFn

\* ---- C2
\* C2: the release() of a handle from a blocking acquire sends its unlock
\* to the session the grant was made on and to no other (never to a pooled
\* connection), and once it has completed that session is closed and,
\* when the release met no error, no longer holds the identifier.
C2_SessionAffinity ==
    \A p \in Tasks :
        LET t == task[p]
            h == handle[p]
        IN  (t.op \in {"handleRelease", "withLock"} /\ t.releases > 0 /\ h.wait)
               => /\ h.grantedOn # NoRunner
                  /\ h.queryRunner = h.grantedOn
                  /\ t.queryRunner = h.grantedOn
                  /\ t.pc # "relKey"
                  /\ t.pc = "done"
                        => /\ sess[h.grantedOn] = "closed"
                           /\ t.relErrors = 0
                                 => lockHolder[h.lockKey] # h.grantedOn

\* the first release() of a blocking handle has completed without error
C2_Witness ==
    \E p \in Tasks :
        /\ task[p].op = "handleRelease" /\ task[p].pc = "done"
        /\ task[p].relErrors = 0
        /\ handle[p].wait /\ handle[p].releaseCalls = 1

\* ---- C3
\* C3 (as claimed): while the handle of a successful non-blocking acquire
\* is outstanding, the engine lock on its identifier is held by an open
\* session kept for that handle.
C3_NonBlockingHolds ==
    \A p \in Tasks :
        (Outstanding(p) /\ ~handle[p].wait)
           => /\ lockHolder[handle[p].lockKey] = handle[p].grantedOn
              /\ sess[handle[p].grantedOn] = "open"

\* ---- C4
\* C4 (as claimed): a non-blocking acquire that was refused because the
\* key is held for another caller's handle (and that met no connection
\* failure) ends, once the probing session is returned, with AlreadyHeld
\* after exactly one grant request and no sleep.
C4_AlreadyHeldAtOnce ==
    \A p \in Tasks :
        LET t == task[p]
        IN  (Acquiring(t) /\ ~t.wait /\ t.refusals > 0 /\ t.errors = 0
                /\ HeldByIdleHolder(t.lockKey, p) /\ t.pc # "tryRelease")
               => /\ t.pc = "done"
                  /\ t.outcome = "AlreadyHeld"
                  /\ t.attempts = 1
                  /\ t.sleeps = 0

\* ---- C5
\* C5 (as claimed): a blocking acquire against a key whose holder keeps
\* the lock terminates in AcquireTimeout; so while its grant request waits
\* on a held identifier it is never stuck: it has a next step that needs
\* neither the holder's release nor a connection failure.
C5_BlockedAcquireProceeds ==
    \A p \in Tasks :
        (/\ Acquiring(task[p]) /\ task[p].wait /\ task[p].pc = "lock"
         /\ HeldByIdleHolder(task[p].lockKey, p))
           => ENABLED AcquireStep(p)

\* ---- C6
\* C6: a blocking acquire that met no connection failure is still in its
\* first attempt, has not slept and has not failed, for every maxRetries;
\* a grant request waiting on a held identifier ends only by a connection
\* failure; and the step in which the engine grants returns the handle,
\* bound to the granted session.
C6_Inv ==
    \A p \in Tasks :
        LET t == task[p]
        IN  (Acquiring(t) /\ t.wait /\ t.errors = 0)
               => /\ t.attempt = 0
                  /\ t.sleeps = 0
                  /\ t.attempts <= 1
                  /\ t.outcome \notin AcquireErrors

C6_Step ==
    \A p \in Tasks :
        LET t == task[p]
            u == task'[p]
        IN  (Acquiring(t) /\ t.wait /\ t.pc = "lock" /\ u # t)
               => \/ /\ u.pc = "tryCatch"
                     /\ u.errors = t.errors + 1
                     /\ faultsLeft' = faultsLeft - 1
                  \/ /\ Grantable(t.queryRunner, t.lockKey)
                     /\ lockHolder'[t.lockKey] = t.queryRunner
                     /\ handle'[p].live
                     /\ handle'[p].queryRunner = t.queryRunner
                     /\ u.pc \in {"done", "fn"}

C7_Inv ==
    \A p \in Tasks :
        LET t == task[p]
        IN  /\ (Acquiring(t) /\ t.wait /\ t.errors = 0 /\ handle[p].live
                  /\ handle[p].key = t.key /\ t.releases = 0)
                  => (t.attempts = 1 /\ t.sleeps = 0)
            /\ (t.pc = "lock" /\ lockHolder[t.lockKey] = Free)
                  => ENABLED LockGranted(p)
            /\ (t.op = "handleRelease" /\ t.pc = "done")
                  => /\ t.outcome = "released"
                     /\ (NoFaultYet /\ handle[p].releaseCalls = 1)
                           => t.relErrors = 0

C7_Step ==
    \A p \in Tasks :
        LET u == task'[p]
            h == handle[p]
        IN  (task[p].pc = "idle" /\ u.op = "isLocked" /\ NoFaultYet
                /\ faultsLeft' = faultsLeft /\ h.wait /\ h.key = u.key)
               => /\ Outstanding(p) => u.isLockedResult
                  /\ (~h.live /\ h.releaseCalls > 0
                        /\ HolderTask(u.lockKey) \in {0, p})
                        => ~u.isLockedResult

C7_Uncontended == []C7_Inv /\ [][C7_Step]_vars

\* acquire, release, then isLocked on the same key answered false
C7_Witness ==
    \E p \in Tasks :
        /\ task[p].op = "isLocked" /\ task[p].pc = "done"
        /\ ~task[p].isLockedResult
        /\ handle[p].wait /\ handle[p].key = task[p].key
        /\ handle[p].releaseCalls = 1

\* ---- C8
\* C8: when fn rejects, withLock rejects with fn's error, and at that
\* moment the session of the handle is closed and, when the release met
\* no error, no session of the caller holds the identifier any more.
C8_ReleasedOnThrow ==
    \A p \in Tasks :
        LET t == task[p]
        IN  (t.op = "withLock" /\ t.pc = "done" /\ t.fnResult = "error")
               => /\ t.outcome = "error"
                  /\ t.relErrors = 0 => HolderTask(t.lockKey) # p
                  /\ t.releases = 1
                  /\ t.queryRunner # NoRunner => sess[t.queryRunner] = "closed"

\* a blocking withLock whose fn rejected has settled
C8_Witness ==
    \E p \in Tasks :
        /\ task[p].op = "withLock" /\ task[p].pc = "done"
        /\ task[p].wait /\ task[p].fnResult = "error"
        /\ task[p].relErrors = 0

\* ---- C9
\* C9: once fn has been called, withLock settles with exactly fn's result
\* (its value or its error), also when the unlock query or the session
\* close failed during the release.
C9_ReleaseFailureMasksNothing ==
    \A p \in Tasks :
        LET t == task[p]
        IN  (t.op = "withLock" /\ t.pc = "done" /\ t.fnCalls > 0)
               => /\ t.fnResult \in {"value", "error"}
                  /\ t.outcome = t.fnResult

\* withLock resolved with fn's value although the release met an error
C9_Witness ==
    \E p \in Tasks :
        /\ task[p].op = "withLock" /\ task[p].pc = "done"
        /\ task[p].relErrors > 0 /\ task[p].outcome = "value"

\* ---- C10
\* C10: withLock settles with an acquisition error exactly when acquire
\* failed, and then fn was never called and no release was attempted.
C10_AcquireFailurePropagates ==
    \A p \in Tasks :
        LET t == task[p]
        IN  (t.op = "withLock" /\ t.pc = "done")
               => /\ (t.fnCalls = 0) <=> (t.outcome \in AcquireErrors)
                  /\ t.fnCalls = 0 => /\ t.releases = 0
                                      /\ t.fnResult = "none"
                                      /\ t.relErrors = 0

\* withLock rejected with AcquireTimeout
C10_Witness ==
    \E p \in Tasks :
        /\ task[p].op = "withLock" /\ task[p].pc = "done"
        /\ task[p].outcome = "AcquireTimeout"

C12_ReleaseKeyFrees ==
    \A p \in Tasks :
        LET t == task[p]
            h == handle[p]
        IN  (t.op = "releaseKey" /\ t.pc = "done" /\ t.relErrors = 0
                /\ h.live /\ h.wait /\ h.lockKey = t.lockKey)
               => lockHolder[t.lockKey] # h.grantedOn

\* ---- C13
\* C13: while a blocking handle is outstanding and its session holds the
\* identifier, no step of any caller (a release(key), the release() of
\* another handle, a probe) takes the identifier away from that session.
C13_ForeignReleaseNoOp ==
    [][\A q \in Tasks :
          LET h == handle[q]
          IN  (Outstanding(q) /\ h.wait /\ lockHolder[h.lockKey] = h.grantedOn)
                 => lockHolder'[h.lockKey] = h.grantedOn]_vars

\* the release() of a non-blocking handle on the same key has completed
\* while another caller's blocking handle holds the identifier
C13_Witness ==
    \E p, q \in Tasks :
        /\ p # q
        /\ task[p].op = "handleRelease" /\ task[p].pc = "done"
        /\ ~handle[p].wait /\ handle[p].lockKey = handle[q].lockKey
        /\ Outstanding(q) /\ handle[q].wait
        /\ lockHolder[handle[q].lockKey] = handle[q].grantedOn

\* ---- C14
\* C14: every isLocked call returns a boolean (it never throws), returns
\* false when its query met an error, and changes no lock, no session and
\* no handle.
C14_IsLockedNeverThrows ==
    [][\A p \in Tasks :
          LET u == task'[p]
          IN  (task[p].pc = "idle" /\ u.op = "isLocked")
                 => /\ u.pc = "done"
                    /\ u.outcome = "isLocked"
                    /\ u.relErrors > 0 => ~u.isLockedResult
                    /\ lockHolder' = lockHolder
                    /\ sess' = sess
                    /\ handle' = handle]_vars

\* isLocked met an error and returned false although the key is held
C14_Witness ==
    \E p \in Tasks :
        /\ task[p].op = "isLocked" /\ task[p].pc = "done"
        /\ task[p].relErrors > 0 /\ ~task[p].isLockedResult
        /\ task[p].outcome = "isLocked"
        /\ lockHolder[task[p].lockKey] # Free

\* ---- C15
\* C15: an isLocked call whose query succeeds returns true exactly when
\* some session, of whichever caller, still bound to its query runner or
\* back in the pool, holds the identifier of the key at the moment of the
\* query.
C15_IsLockedExact ==
    [][\A p \in Tasks :
          LET u == task'[p]
          IN  (task[p].pc = "idle" /\ u.op = "isLocked" /\ u.relErrors = 0)
                 => (u.isLockedResult <=>
                        \E s \in Runners : /\ lockHolder[u.lockKey] = s
                                           /\ sess[s] \in {"open", "closed"})]_vars

\* isLocked returned true for a key that another caller holds
C15_Witness ==
    \E p \in Tasks :
        /\ task[p].op = "isLocked" /\ task[p].pc = "done"
        /\ task[p].relErrors = 0 /\ task[p].isLockedResult
        /\ HolderTask(task[p].lockKey) \notin {0, p}

\* ---- C16
\* C16: in acquire a connection failure ends the attempt like a refusal:
\* every failed attempt but the last is followed by exactly one sleep, the
\* attempt number never passes maxRetries, AcquireTimeout is raised after
\* exactly maxRetries + 1 failed attempts and maxRetries sleeps, and a
\* handle is returned when an attempt succeeds after failed ones.
C16_Inv ==
    \A p \in Tasks :
        LET t == task[p]
            failed == t.errors + t.refusals
        IN  Acquiring(t)
               => /\ t.sleeps = t.attempt
                  /\ t.attempt <= t.maxRetries
                  /\ t.errors <= t.attempt + 1
                  /\ t.refusals <= t.attempt + 1
                  /\ t.pc = "sleep" => failed >= t.attempt + 1
                  /\ (t.pc = "done" /\ t.outcome = "AcquireTimeout")
                        => /\ t.attempt = t.maxRetries
                           /\ t.sleeps = t.maxRetries
                           /\ failed >= t.maxRetries + 1
                           /\ t.refusals = 0 => t.errors = t.maxRetries + 1
                  /\ (t.pc = "done" /\ t.outcome = "handle")
                        => /\ failed >= t.attempt
                           /\ t.refusals = 0 => t.errors = t.attempt
                           /\ handle[p].live
                           /\ handle[p].key = t.key

\* a failed attempt that was not the last is followed by the sleep and
\* then by the next attempt, on a new session
C16_Step ==
    \A p \in Tasks :
        LET t == task[p]
            u == task'[p]
        IN  /\ (t.pc = "tryCatch" /\ u # t)
                  => IF t.attempt = t.maxRetries
                     THEN u.pc = "done" /\ u.outcome = "AcquireTimeout"
                     ELSE u.pc = "sleep"
            /\ (t.pc = "sleep" /\ u # t)
                  => /\ u.pc = "connect"
                     /\ u.attempt = t.attempt + 1
                     /\ u.queryRunner # t.queryRunner

C16_FailureRetried == []C16_Inv /\ [][C16_Step]_vars

\* every attempt of an acquire with maxRetries = MaxRetriesOpt met a
\* connection failure and the call ended in AcquireTimeout
C16_Witness ==
    \E p \in Tasks :
        /\ task[p].op = "acquire" /\ task[p].pc = "done"
        /\ task[p].outcome = "AcquireTimeout"
        /\ task[p].maxRetries = MaxRetriesOpt
        /\ task[p].errors = MaxRetriesOpt + 1
        /\ task[p].refusals = 0
        /\ task[p].sleeps = MaxRetriesOpt

\* ---- C17
\* C17: an acquire call that has returned or thrown ended with a handle
\* or with one of the two lock exceptions, never with the raw error of a
\* connection or query; it holds a live handle exactly when it returned
\* one, and a LockAcquireTimeoutException carries the key of the call (not
\* its identifier) and the call's timeout option, or defaultTimeout when
\* the option was not given.
C17_AcquireOutcomes ==
    \A p \in Tasks :
        LET t == task[p]
        IN  (t.op = "acquire" /\ t.pc = "done")
               => /\ t.outcome \in {"handle"} \cup AcquireErrors
                  /\ (t.outcome = "handle") <=> handle[p].live
                  /\ (t.outcome = "handle") <=> (t.thrown = NoError)
                  /\ t.outcome = "AcquireTimeout"
                        => /\ t.thrown.key = t.key
                           /\ t.thrown.timeout =
                                 IF t.optTimeout = <<>> THEN defaultTimeout
                                 ELSE t.optTimeout[1]

\* an acquire called with a timeout option met a connection failure in
\* its last attempt and threw LockAcquireTimeoutException
C17_Witness ==
    \E p \in Tasks :
        /\ task[p].op = "acquire" /\ task[p].pc = "done"
        /\ task[p].errors > 0 /\ task[p].refusals = 0
        /\ task[p].outcome = "AcquireTimeout"
        /\ task[p].thrown = [key |-> task[p].key, timeout |-> OptTimeout]

\* ---- C18
\* C18: outside an attempt in flight, a caller running a non-blocking
\* acquire has no session left: the one each attempt opened is closed when
\* the attempt returns (granted or refused) or throws (connect or query
\* error), and the handle of a granted one keeps no query runner.
C18_NonBlockingSessionReturned ==
    \A p \in Tasks :
        LET t == task[p]
            h == handle[p]
        IN  /\ (Acquiring(t) /\ ~t.wait /\ t.pc \notin AttemptPcs)
                  => /\ OpenSessions(p) = {}
                     /\ t.attempts > 0 => sess[<<p, nextRunner[p]>>] = "closed"
            /\ (h.live /\ ~h.wait)
                  => /\ h.queryRunner = NoRunner
                     /\ sess[h.grantedOn] = "closed"

\* a granted non-blocking acquire has returned its handle while another
\* caller's non-blocking acquire, refused, sleeps before its retry
C18_Witness ==
    \E p, q \in Tasks :
        /\ task[p].op = "acquire" /\ task[p].pc = "done" /\ ~task[p].wait
        /\ task[p].outcome = "handle"
        /\ sess[handle[p].grantedOn] = "closed"
        /\ task[q].pc = "sleep" /\ ~task[q].wait /\ task[q].refusals > 0
        /\ sess[task[q].queryRunner] = "closed"

\* ---- C20
\* C20: a caller never has more sessions than its granted and unreleased
\* blocking handle (one) plus its attempt in flight (one), and while it
\* sleeps before a retry the session of the failed attempt is closed.
C20_SessionBudget ==
    \A p \in Tasks :
        LET t == task[p]
            h == handle[p]
        IN  /\ Cardinality(OpenSessions(p))
                  <= (IF h.live /\ h.wait THEN 1 ELSE 0)
                     + (IF t.pc \in AttemptPcs THEN 1 ELSE 0)
            /\ t.pc = "sleep" => /\ sess[t.queryRunner] = "closed"
                                 /\ OpenSessions(p) = {}

\* a blocking acquire sleeps after a failed attempt while the other
\* caller holds a blocking handle on its one session
C20_Witness ==
    \E p, q \in Tasks :
        /\ task[p].pc = "sleep" /\ task[p].wait /\ task[p].errors > 0
        /\ q # p /\ Outstanding(q) /\ handle[q].wait
        /\ OpenSessions(q) = {handle[q].grantedOn}

\* ---- C19
\* C19 (as claimed): the release() calls of a handle call
\* queryRunner.release() on its session at most once in all, however often
\* release() is called and whatever fails, and the session of an
\* outstanding blocking handle is open.
C19_ClosedOnce ==
    \A p \in Tasks :
        LET h == handle[p]
        IN  /\ h.runnerReleases <= 1
            /\ (Outstanding(p) /\ h.wait) => sess[h.grantedOn] = "open"

\* ---- C22
\* C22 (as claimed): while the body of a method decorated with @Lock
\* runs, the identifier of its key is held by a session of the request's
\* coordinator, and the release of that lock has not begun.
C22_BodyUnderLock ==
    \A p \in Tasks :
        LET t == task[p]
        IN  (t.op = "intercept" /\ t.pc = "body")
               => /\ HolderTask(t.lockKey) = p
                  /\ t.releases = 0

\* ---- C21
\* C21: the identifier computed for any key (empty, with characters
\* outside ASCII, long) is an integer from 0 up to, and below, 2147483647,
\* and whenever two coordinators have hashed equal keys they have got
\* equal identifiers.
C21_IdentifierRange ==
    \A p, q \in Tasks :
        LET t == task[p]
            u == task[q]
        IN  (t.op = "generateLockKey" /\ t.pc = "done")
               => /\ t.lockKey >= 0
                  /\ t.lockKey < MaxPgInt
                  /\ (u.op = "generateLockKey" /\ u.pc = "done"
                         /\ u.key = t.key) => u.lockKey = t.lockKey

\* one coordinator has hashed the empty string and another the long key
C21_Witness ==
    \E p, q \in Tasks :
        /\ task[p].op = "generateLockKey" /\ task[p].pc = "done"
        /\ task[p].key = <<>>
        /\ task[q].op = "generateLockKey" /\ task[q].pc = "done"
        /\ task[q].key = LongKey
        /\ task[q].lockKey # task[p].lockKey

\* ---- C23
\* the handle's own fields, without the counters of calls made on it
HandleFields(h) == [h EXCEPT !.releaseCalls = 0, !.runnerReleases = 0]

\* C23: every step of a handle.release() made on a handle that was
\* released before leaves the engine's locks (another coordinator's
\* included), the sessions, the handle and the shared data as they were,
\* and the call ends by resolving; nothing a later call reads is changed.
C23_ExtraReleaseStep ==
    \A p \in Tasks :
        (/\ task[p].op = "handleRelease"
         /\ handle[p].releaseCalls >= 1
         /\ task[p].pc # "done"
         /\ task'[p] # task[p])
            => /\ lockHolder' = lockHolder
               /\ sess' = sess
               /\ nextRunner' = nextRunner
               /\ counter' = counter
               /\ HandleFields(handle'[p]) = HandleFields(handle[p])
               /\ task'[p].pc = "done" => task'[p].outcome = "released"

C23_ExtraReleaseHarmless == [][C23_ExtraReleaseStep]_vars

\* a second release() of a handle has resolved while another coordinator
\* holds the key, acquired in the meantime
C23_Witness ==
    \E p, q \in Tasks :
        /\ p # q
        /\ task[p].op = "handleRelease" /\ task[p].pc = "done"
        /\ task[p].outcome = "released"
        /\ handle[p].releaseCalls = 2
        /\ handle[q].live /\ handle[q].key = handle[p].key
        /\ HolderTask(handle[p].lockKey) = q

\* ---- C24
\* what an option is worth in a call: what the call gives, else the default
Effective(opt, dflt) == IF Len(opt) = 1 THEN opt[1] ELSE dflt

\* the grant attempts a failing call makes with maxRetries = mr
AttemptsFor(mr) == IF mr + 1 > 0 THEN mr + 1 ELSE 0

\* C24: in every acquire call the grant request is the blocking one
\* exactly if wait is omitted or true, the attempts and sleeps are bounded
\* by the call's maxRetries (0 included) or else the service's, every
\* sleep lasts the call's retryDelay (0 included) or else the service's,
\* and the timeout error carries the call's timeout or else the
\* service's; a coordinator's next call starts from the defaults again.
C24_OptionsPrecedence ==
    \A p \in Tasks :
        LET t  == task[p]
            mr == Effective(t.opts.maxRetries, maxRetries)
        IN  t.op = "acquire"
               => /\ t.pc = "lock" => Effective(t.opts.wait, TRUE)
                  /\ t.pc = "tryLock" => ~Effective(t.opts.wait, TRUE)
                  /\ t.attempts <= AttemptsFor(mr)
                  /\ t.sleeps <= AttemptsFor(mr - 1)
                  /\ t.slept
                        = t.sleeps * Effective(t.opts.retryDelay, retryDelay)
                  /\ t.outcome = "AcquireTimeout"
                        => /\ t.attempts = AttemptsFor(mr)
                           /\ t.thrown.timeout
                                 = Effective(t.opts.timeout, defaultTimeout)

\* a coordinator's second call, non-blocking and with every other option
\* omitted, has failed after the service's three attempts and two sleeps
\* of 100 ms, while its first call made one attempt
C24_Witness ==
    \E p \in Tasks :
        /\ task[p].op = "acquire" /\ task[p].pc = "done"
        /\ task[p].outcome = "AcquireTimeout"
        /\ task[p].opts = [NoOptions EXCEPT !.wait = <<FALSE>>]
        /\ task[p].attempts = maxRetries + 1
        /\ task[p].slept = maxRetries * retryDelay
        /\ task[p].thrown.timeout = defaultTimeout
        /\ nextRunner[p] = maxRetries + 2

\* ---- C25
\* the engine holds the lock of p's handle on the session of its grant
HeldByHandle(p) ==
    /\ handle[p].live
    /\ lockHolder[handle[p].lockKey] = handle[p].grantedOn

\* C25: a lock acquired with a ttl and held does not stay held for ever,
\* whether or not the caller calls release(); a lock acquired without ttl
\* is given up by a release() or with its session only.
C25_TtlReleases ==
    \A p \in Tasks :
        (HeldByHandle(p) /\ handle[p].ttl # <<>>) ~> ~HeldByHandle(p)

\* ---- C26
\* every coordinator's call has completed, fn has run once per call, the
\* lock is free and no session is open
AllCallsDone ==
    /\ \A p \in Tasks :
          /\ task[p].pc = "idle"
          /\ nextRunner[p] = 1
          /\ OpenSessions(p) = {}
    /\ fnRuns[KeyA] = NumTasks
    /\ counter[KeyA] = NumTasks
    /\ \A id \in LockIds : lockHolder[id] = Free

\* C26: when every coordinator calls withLock once on the same key with no
\* options, no call runs fn twice, and in the end, and from then on, every
\* call has completed, fn has run once for each, the lock is free and no
\* session is open.
C26_ScopedLiveness ==
    /\ [](\A p \in Tasks : task[p].fnCalls <= 1)
    /\ <>[]AllCallsDone

\* all calls have completed that way
C26_Witness == AllCallsDone

\* ---- C27
\* the keys for which a session of q holds a lock: the key of its handle,
\* the key of a grant its running call has just been given
KeysHeldBy(q) ==
    {k \in {handle[q].key} : HeldByHandle(q)}
        \cup {k \in {task[q].key} :
                 /\ task[q].queryRunner # NoRunner
                 /\ lockHolder[task[q].lockKey] = task[q].queryRunner}

\* some session holds a key whose identifier is that of the key p asks for
Excluded(p) ==
    \E q \in Tasks : \E k \in KeysHeldBy(q) :
        generateLockKey(k) = generateLockKey(task[p].key)

\* a non-blocking request of p is answered: refused exactly if excluded
C27_RefusalStep ==
    \A p \in Tasks :
        (task[p].pc = "tryLock" /\ task'[p].pc # "tryLock")
            => ((task'[p].refusals = task[p].refusals + 1) <=> Excluded(p))

\* C27: keys held at one time by different coordinators never have one
\* identifier, a blocking request waits exactly while a key with the
\* identifier of its key is held (the same key or another), and a
\* non-blocking request is refused exactly then; keys with different
\* identifiers do not hinder each other.
C27_ExclusionByIdentifier ==
    /\ [](\A p \in Tasks :
            /\ \A q \in Tasks \ {p} :
                  \A k \in KeysHeldBy(p), l \in KeysHeldBy(q) :
                      generateLockKey(k) # generateLockKey(l)
            /\ task[p].pc = "lock"
                  => (ENABLED LockGranted(p) <=> ~Excluded(p)))
    /\ [][C27_RefusalStep]_vars

\* a blocking request for "h3ye" waits while another coordinator's handle
\* holds "g4u6"
C27_Witness ==
    \E p, q \in Tasks :
        /\ task[p].pc = "lock" /\ task[p].key = KeyH
        /\ HeldByHandle(q) /\ handle[q].key = KeyG
        /\ ~ENABLED LockGranted(p)

\* ---- C28
\* the query runners that p's call has created, one per turn of the loop
CallRunners(p) ==
    LET turns == IF task[p].maxRetries < 0 THEN 0 ELSE task[p].attempt + 1
    IN  {s \in Runners :
            /\ s[1] = p
            /\ s[2] > nextRunner[p] - turns
            /\ s[2] <= nextRunner[p]}

\* C28: once acquire has ended with AcquireTimeout or AlreadyHeld, none of
\* the sessions of its attempts is open and none holds the identifier.
C28_NothingLeftBehind ==
    \A p \in Tasks :
        LET t == task[p]
        IN  (t.op = "acquire" /\ t.pc = "done" /\ t.outcome \in AcquireErrors)
               => \A s \in CallRunners(p) :
                      /\ sess[s] \notin {"created", "open"}
                      /\ lockHolder[t.lockKey] # s

\* ---- C29
\* C29: a handle.release() that has ended has resolved, whatever failed on
\* its way, and if it met an error on the session bound to the handle,
\* that session's query runner has been released all the same.
C29_ReleaseResolves ==
    \A p \in Tasks :
        LET t == task[p]
        IN  (t.op = "handleRelease" /\ t.pc = "done")
               => /\ t.outcome = "released"
                  /\ (t.relErrors > 0 /\ t.queryRunner # NoRunner)
                        => sess[t.queryRunner] = "closed"

\* a release() on a bound handle has resolved after its query failed
C29_Witness ==
    \E p \in Tasks :
        /\ task[p].op = "handleRelease" /\ task[p].pc = "done"
        /\ task[p].outcome = "released"
        /\ task[p].relErrors > 0
        /\ task[p].queryRunner # NoRunner
        /\ sess[task[p].queryRunner] = "closed"
        /\ handle[p].runnerReleases = 1

\* ---- C30
\* a call of acquire with a negative maxRetries is made: it ends at once
\* with AcquireTimeout, without a session and without a query
C30_NegativeStep ==
    \A p \in Tasks :
        (/\ task[p].pc = "idle"
         /\ task'[p].op = "acquire"
         /\ task'[p].maxRetries < 0)
            => /\ task'[p].pc = "done"
               /\ task'[p].outcome = "AcquireTimeout"
               /\ task'[p].attempts = 0
               /\ sess' = sess
               /\ nextRunner' = nextRunner
               /\ lockHolder' = lockHolder

PoolExhausted ==
    /\ Cardinality(PooledSessions) = PoolSize
    /\ \E h \in Tasks :
          /\ HeldByHandle(h)
          /\ handle[h].grantedOn \in PooledSessions
          /\ \A q \in Tasks \ {h} :
                task[q].pc = "lock" /\ task[q].queryRunner \in PooledSessions

\* C31: the pool never gives out more than its PoolSize connections, and
\* a blocking request that waits while the holder and the waiters occupy
\* every connection of the pool is granted in the end: the holder's
\* release runs on the session it has.
C31_NoPoolDeadlock ==
    /\ [](Cardinality(PooledSessions) <= PoolSize)
    /\ \A p \in Tasks :
          (PoolExhausted /\ task[p].pc = "lock")
              ~> (HeldByHandle(p) /\ task[p].pc = "fn")

\* the pool is exhausted by a holder that is about to release and by
\* waiters
C31_Witness ==
    /\ PoolExhausted
    /\ \E h \in Tasks : HeldByHandle(h) /\ task[h].pc = "relUnlock"

\* ---- C32
\* the request met an interceptor without Reflector, or a handler without
\* lock metadata
Unlocked(t) ==
    /\ t.request.isRequest
    /\ ~t.request.reflector \/ t.request.metadata = <<>>

\* a step of such a request changes no session, no lock and no handle
C32_PassThroughStep ==
    \A p \in Tasks :
        (task'[p] # task[p] /\ (Unlocked(task[p]) \/ Unlocked(task'[p])))
            => /\ sess' = sess
               /\ lockHolder' = lockHolder
               /\ nextRunner' = nextRunner
               /\ handle' = handle

\* C32: a request that meets no Reflector or no lock metadata is passed
\* straight to the handler, which runs once; from its start to its end no
\* session is opened, no lock is asked for and no release is issued.
C32_PassThrough ==
    /\ [](\A p \in Tasks :
            LET t == task[p]
            IN  Unlocked(t)
                   => /\ t.op = "passThrough"
                      /\ t.pc \in {"subscribe", "body", "done"}
                      /\ t.queryRunner = NoRunner
                      /\ t.attempts = 0 /\ t.fnCalls = 0 /\ t.releases = 0
                      /\ t.pc = "done" => t.bodyRuns = 1)
    /\ [][C32_PassThroughStep]_vars

\* a request to a handler decorated with @Lock, met by an interceptor
\* without Reflector, has completed before its coordinator ever opened a
\* session, while the lock of its key is held for another request
C32_Witness ==
    \E p \in Tasks :
        /\ task[p].op = "passThrough" /\ task[p].pc = "done"
        /\ ~task[p].request.reflector
        /\ task[p].request.metadata # <<>>
        /\ task[p].bodyRuns = 1
        /\ nextRunner[p] = 0
        /\ lockHolder[generateLockKey(task[p].key)] # Free

\* ---- C33
\* C33: when the acquisition for a request to a method decorated with
\* @Lock has failed, the request ends with the error that acquire threw
\* and the method has not been invoked.
C33_FailedAcquireSkipsMethod ==
    \A p \in Tasks :
        LET t == task[p]
        IN  (t.op = "intercept" /\ t.outcome \in AcquireErrors)
               => /\ t.pc = "done"
                  /\ t.bodyRuns = 0
                  /\ t.fnCalls = 0
                  /\ t.thrown = LockAcquireTimeoutException(t.key, t.timeout)

\* a request whose non-blocking acquisition was refused has ended with the
\* error, its method not invoked
C33_Witness ==
    \E p \in Tasks :
        /\ task[p].op = "intercept" /\ task[p].pc = "done"
        /\ task[p].outcome = "AcquireTimeout"
        /\ task[p].refusals = 1
        /\ task[p].bodyRuns = 0

====
